---- MODULE Spec2Model ----
(***************************************************************************)
(* ScholarSift (paperSearch): the search / cache / export pipeline of      *)
(* app.py.  Strings are sequences of one-character strings, so that        *)
(* split, strip, replace, padding and slicing are computed as Python       *)
(* computes them.  A character outside ASCII is written as one token       *)
(* ("lun", "wen", "emdash"): one element of the sequence, one character.   *)
(***************************************************************************)
EXTENDS Integers, Sequences, FiniteSets, TLC

VARIABLES
    paper_data_cache,    \* global list of PaperRecord (line 33)
    current_query_info,  \* global dict (line 34)
    dirs,                \* directories that exist on disk
    files,               \* file name -> content, for the files that exist
    now,                 \* the wall clock read by datetime.now()
    last,                \* the most recent completed call, with the state it started from
    prevExport,          \* the most recent export_results call since the last successful search
    lastOkPapers,        \* the list built by the most recent successful search
    lastSearchPapers,    \* the list built by the most recent search, empty when it built none
    pc,                  \* per thread: position inside its handler
    loc,                 \* per thread: the handler's local variables
    cacheQuery,          \* the query of the call that last bound paper_data_cache
    produced             \* the lists that search calls have bound to paper_data_cache

vars == <<paper_data_cache, current_query_info, dirs, files, now, last,
          prevExport, lastOkPapers, lastSearchPapers, pc, loc, cacheQuery, produced>>

seqHist == <<last, prevExport, lastOkPapers, lastSearchPapers>>
concVars == <<pc, loc, cacheQuery, produced>>

-----------------------------------------------------------------------------
(* Bounds of the model *)

\* longest feed the service returns
MaxFeed == 2
\* number of calls (clock readings) explored
MaxClock == 3

-----------------------------------------------------------------------------
(* Strings *)

NoneVal == "None"

Min(a, b) == IF a < b THEN a ELSE b

Rep(c, n) == [i \in 1..n |-> c]

\* str(n) for n >= 0
RECURSIVE Digits(_)
Digits(n) ==
    LET d == <<"0","1","2","3","4","5","6","7","8","9">>[(n % 10) + 1]
    IN  IF n < 10 THEN <<d>> ELSE Digits(n \div 10) \o <<d>>

\* s.find(sep), counted from 1; 0 when absent
Find(s, sep) ==
    LET hits == {i \in 1..Len(s) : s[i] = sep}
    IN  IF hits = {} THEN 0 ELSE CHOOSE i \in hits : \A j \in hits : i <= j

\* s.split(sep) for a one-character sep
RECURSIVE Split(_, _)
Split(s, sep) ==
    LET k == Find(s, sep)
    IN  IF k = 0 THEN <<s>>
        ELSE <<SubSeq(s, 1, k-1)>> \o Split(SubSeq(s, k+1, Len(s)), sep)

\* s.replace('\n', ' ')
ReplaceNewlines(s) == [i \in 1..Len(s) |-> IF s[i] = "\n" THEN " " ELSE s[i]]

Whitespace == {" ", "\t", "\n", "\r"}

\* s.strip(): drop the leading and the trailing run of whitespace
Strip(s) ==
    LET n    == Len(s)
        lead == CHOOSE k \in 0..n :
                    /\ \A i \in 1..k : s[i] \in Whitespace
                    /\ k < n => s[k+1] \notin Whitespace
        trail == CHOOSE k \in 0..n :
                    /\ \A i \in 1..k : s[n + 1 - i] \in Whitespace
                    /\ k < n => s[n - k] \notin Whitespace
    IN  IF lead = n THEN <<>> ELSE SubSeq(s, lead + 1, n - trail)

\* sep.join(parts)
RECURSIVE Join(_, _)
Join(sep, parts) ==
    IF Len(parts) = 0 THEN <<>>
    ELSE IF Len(parts) = 1 THEN parts[1]
    ELSE parts[1] \o sep \o Join(sep, Tail(parts))

\* f"{k:<w}"
PadRight(s, w) == IF Len(s) >= w THEN s ELSE s \o Rep(" ", w - Len(s))

\* s[:n]
Take(s, n) == SubSeq(s, 1, Min(Len(s), n))

IsPrefix(p, s) == Len(p) <= Len(s) /\ SubSeq(s, 1, Len(p)) = p

-----------------------------------------------------------------------------
(* The feed: what feedparser hands to search_papers *)

Entry1 ==
    [ title     |-> <<"G","P","T","\n","4">>,
      authors   |-> << [name |-> <<"A","l">>], [name |-> <<"B","o">>] >>,
      published |-> <<"2","0","2","4","-","0","1","-","0","2","T",
                      "0","3",":","0","4",":","0","5","Z">>,
      summary   |-> <<" ">> \o Rep("x", 44) \o <<"\n">> \o Rep("y", 44) \o <<" ","\n">>,
      links     |-> << [href |-> <<"a","b","s","/","1">>],
                       [href |-> <<"p","d","f","/","1">>] >>,
      id        |-> <<"i","d","/","1">> ]

Entry2 ==
    [ title     |-> Rep("W", 95),
      authors   |-> << [name |-> <<"C","y">>] >>,
      published |-> <<"2","0","2","3","-","1","1","-","3","0","T",
                      "0","0",":","0","0",":","0","0","Z">>,
      summary   |-> <<"o","k">>,
      links     |-> << [href |-> <<"a","b","s","/","2">>] >>,
      id        |-> <<"i","d","/","2">> ]

Queries == {"q1", "q2"}

\* the service's index: the entries matching a query, best match first
Ranked(query, n) ==
    [i \in 1..n |-> IF (i % 2 = 1) = (query = "q1") THEN Entry1 ELSE Entry2]

\* a response holds the first n matches, n up to MaxFeed
FeedsFor(query) == {Ranked(query, n) : n \in 0..MaxFeed}

\* the UI's default for the slider (line 197)
MaxResultsChoices == {5}

NetFailures == {"connection_error", "timeout", "http_status"}

-----------------------------------------------------------------------------
(* search_papers, the pure part *)

FieldOrder == <<"Title", "Authors", "Published", "PDF Link", "Abstract">>

PaperOf(entry) ==
    [ k \in {"Title", "Authors", "Published", "PDF Link", "Abstract"} |->
        CASE k = "Title"     -> entry.title
          [] k = "Authors"   -> Join(<<",", " ">>, [i \in 1..Len(entry.authors) |-> entry.authors[i].name])
          [] k = "Published" -> Split(entry.published, "T")[1]
          [] k = "Abstract"  -> Strip(ReplaceNewlines(entry.summary))
          [] k = "PDF Link"  -> IF Len(entry.links) > 1 THEN entry.links[2].href ELSE entry.id ]

\* the local list papers after the loop of lines 57-80
BuildPapers(feed) == [i \in 1..Len(feed) |-> PaperOf(feed[i])]

-----------------------------------------------------------------------------
(* export_results, the pure part *)

\* the dict keys as text, for f"{k:<12}" and for the spreadsheet header
KeyChars(k) ==
    CASE k = "Title"     -> <<"T","i","t","l","e">>
      [] k = "Authors"   -> <<"A","u","t","h","o","r","s">>
      [] k = "Published" -> <<"P","u","b","l","i","s","h","e","d">>
      [] k = "PDF Link"  -> <<"P","D","F"," ","L","i","n","k">>
      [] k = "Abstract"  -> <<"A","b","s","t","r","a","c","t">>

ReportTitle ==
    <<"S","c","h","o","l","a","r","S","i","f","t"," ","xue","shu","lun","wen","dao","chu","bao","gao">>

Watermark ==
    <<"\n","emdash"," ","dao","chu","zi"," ","S","c","h","o","l","a","r","S","i","f","t"," ",
      "zhi","neng","xue","shu","zhu","shou"," ","(","h","t","t","p","s",":","/","/",
      "y","o","u","r","w","e","b","s","i","t","e",".","c","o","m",")"," ","emdash","\n">>

PaperLabel == <<"lun","wen"," ">>
AuthorsLabel == <<"zuo","zhe">> \o Rep(" ", 7) \o <<":"," ">>
PublishedLabel == <<"fa","biao","ri","qi">> \o Rep(" ", 3) \o <<":"," ">>
PdfLinkLabel == <<"P","D","F"," ","lian","jie">> \o Rep(" ", 3) \o <<":"," ">>
AbstractLabel == <<"zhai","yao">> \o Rep(" ", 7) \o <<":"," ">>

\* the heading / subheading line of paper i (i counted from 1)
PaperHeading(i, p) == PaperLabel \o Digits(i) \o <<":"," ">> \o p["Title"]

\* the four labelled lines of a paper, in the order the writers emit them
LabelledLines(p) ==
    << AuthorsLabel \o p["Authors"],
       PublishedLabel \o p["Published"],
       PdfLinkLabel \o p["PDF Link"],
       AbstractLabel \o p["Abstract"] >>

RECURSIVE Concat(_)
Concat(ss) == IF Len(ss) = 0 THEN <<>> ELSE Head(ss) \o Concat(Tail(ss))

\* ---- Text (lines 157-165): the strings handed to f.write, in order
TextKeyWidth == 12
TextRuleLen == 60

TextFieldLine(k, v) == PadRight(KeyChars(k), TextKeyWidth) \o <<":"," ">> \o v \o <<"\n">>

TextBlock(i, p) ==
    << PaperLabel \o Digits(i) \o <<"\n">> >>
    \o [j \in 1..Len(FieldOrder) |-> TextFieldLine(FieldOrder[j], p[FieldOrder[j]])]
    \o << Rep("emdash", TextRuleLen) \o <<"\n","\n">> >>

TextBody(papers) ==
    << ReportTitle \o <<"\n","\n">> >>
    \o Concat([i \in 1..Len(papers) |-> TextBlock(i, papers[i])])
    \o << Watermark >>

\* ---- Word (lines 111-121): the document's blocks, in order
Heading(level, text) == [kind |-> "heading", level |-> level, text |-> text]
Paragraph(text) == [kind |-> "paragraph", level |-> 0, text |-> text]

WordBlock(i, p) ==
    << Heading(1, PaperHeading(i, p)) >>
    \o [j \in 1..4 |-> Paragraph(LabelledLines(p)[j])]

WordBody(papers) ==
    << Heading(0, ReportTitle) >>
    \o Concat([i \in 1..Len(papers) |-> WordBlock(i, papers[i])])
    \o << Paragraph(Watermark) >>

\* ---- PDF (lines 123-151): the drawString calls, in order
PageHeight == 792
PdfMargin == 50
PdfLineWidth == 100
PdfRuleLen == 70

\* line[:99]
DrawnTextShort(line) == Take(line, PdfLineWidth - 1)

\* line 137: line[:100]
DrawnText(line) == Take(line, PdfLineWidth)

\* draw_line(text, size, spacing), followed by y -= gap: the lines it draws, the
\* gap charged to the last of them
DrawLine(text, size, spacing, gap) ==
    LET lines == Split(text, "\n")
    IN  [j \in 1..Len(lines) |->
            [ line |-> lines[j], size |-> size, spacing |-> spacing,
              gap |-> IF j = Len(lines) THEN gap ELSE 0 ]]

\* lines 143-149: the draw_line calls of paper i
PdfPaperLines(i, p) ==
    DrawLine(PaperHeading(i, p), 12, 14, 0)
    \o Concat([j \in 1..4 |-> DrawLine(LabelledLines(p)[j], 10, 14, 0)])
    \o DrawLine(Rep("emdash", PdfRuleLen), 10, 14, 10)

\* lines 140-150: every line handed to the loop body of draw_line, in order
PdfLines(papers) ==
    DrawLine(ReportTitle, 14, 20, 10)
    \o Concat([i \in 1..Len(papers) |-> PdfPaperLines(i, papers[i])])
    \o DrawLine(Watermark, 10, 14, 0)

\* lines 133-138 run over PdfLines: the cursor y and the page after line j,
\* and the drawString call made for it
PdfBody(papers) ==
    LET ls == PdfLines(papers)
        top == PageHeight - PdfMargin
        at[j \in 0..Len(ls)] ==
            IF j = 0 THEN [y |-> top, page |-> 1, drawnAt |-> top]
            ELSE LET prev == at[j-1]
                     brk  == prev.y < PdfMargin
                     y0   == IF brk THEN top ELSE prev.y
                 IN  [ y       |-> y0 - ls[j].spacing - ls[j].gap,
                       page    |-> IF brk THEN prev.page + 1 ELSE prev.page,
                       drawnAt |-> y0 ]
    IN  [j \in 1..Len(ls) |->
            LET c == at[j]
            IN  [ page |-> c.page, x |-> PdfMargin, y |-> c.drawnAt,
                  size |-> ls[j].size, text |-> DrawnText(ls[j].line) ]]

\* ---- Excel (lines 153-155): header row, then one row per paper
ExcelBody(papers) ==
    << [j \in 1..Len(FieldOrder) |-> KeyChars(FieldOrder[j])] >>
    \o [i \in 1..Len(papers) |-> [j \in 1..Len(FieldOrder) |-> papers[i][FieldOrder[j]]]]

\* ---- dispatch
\* an extension map without the 'txt' default: the format's own name is used
ExtOfNoDefault(format) ==
    CASE format = "Text"  -> "txt"
      [] format = "Word"  -> "docx"
      [] format = "PDF"   -> "pdf"
      [] format = "Excel" -> "xlsx"
      [] OTHER            -> format

\* line 105-106: ext_map.get(format, 'txt')
ExtOf(format) ==
    CASE format = "Text"  -> "txt"
      [] format = "Word"  -> "docx"
      [] format = "PDF"   -> "pdf"
      [] format = "Excel" -> "xlsx"
      [] OTHER            -> "txt"

\* a file name that carries the time of the export
FileNameVersioned(format) ==
    "outputs/" \o "scholarsift_export" \o "_" \o ToString(now) \o "." \o ExtOf(format)

\* lines 104-106
FileName(format) == "outputs/" \o "scholarsift_export" \o "." \o ExtOf(format)

\* the branch of the if / elif chain that runs
WriterOf(format) ==
    IF format = "Word" THEN "word"
    ELSE IF format = "PDF" THEN "pdf"
    ELSE IF format = "Excel" THEN "excel"
    ELSE "text"

Document(format, papers) ==
    LET w == WriterOf(format)
    IN  [ writer |-> w,
          body   |-> CASE w = "word"  -> WordBody(papers)
                       [] w = "pdf"   -> PdfBody(papers)
                       [] w = "excel" -> ExcelBody(papers)
                       [] w = "text"  -> TextBody(papers) ]

\* a file that was opened for writing and not completed
PartialFile(format) == [writer |-> WriterOf(format), body |-> <<>>]

LogName == "scholarsift_export_log.json"

IsoTime(t) == [style |-> "isoformat", t |-> t]

LogEvent(format, papers, t) ==
    [ tool |-> "ScholarSift", action |-> "export", format |-> format,
      count |-> Len(papers), time |-> IsoTime(t) ]

LogFile(events) == [writer |-> "json", body |-> events]

Formats == {"Text", "Word", "PDF", "Excel", "CSV"}

\* where an exception is raised inside the try block, if anywhere
FailPoints == {"none", "write", "log"}

-----------------------------------------------------------------------------
(* State after construction *)

\* the handler threads of the UI toolkit: two users searching, one exporting
Searchers == {"s1", "s2"}
Exporters == {"x1"}
Threads == Searchers \cup Exporters

EmptyDict == [k \in {} |-> NoneVal]
NoFiles == [f \in {} |-> NoneVal]

\* what the working directory may hold when the process starts: nothing, or
\* the outputs of an earlier run of the program
LeftoverPapers == BuildPapers(<<Entry1>>)

InitialDisks ==
    { [dirs |-> {}, files |-> NoFiles],
      [dirs |-> {"outputs"},
       files |-> ("outputs/scholarsift_export.txt" :> Document("Text", LeftoverPapers))
                 @@ (LogName :> LogFile(<<LogEvent("Text", LeftoverPapers, 0)>>))] }

NoCall ==
    [ op |-> "none", arg |-> NoneVal, max_results |-> 0, feed |-> <<>>,
      outcome |-> "none", msg |-> NoneVal, ret |-> NoneVal, papers |-> <<>>,
      pre |-> [cache |-> <<>>, info |-> EmptyDict, dirs |-> {}, files |-> NoFiles],
      prev |-> [valid |-> FALSE], prior |-> [op |-> "none", outcome |-> "none"] ]

NoExport == [valid |-> FALSE]

NoLocals == [ret |-> NoneVal]

Init ==
    /\ paper_data_cache = <<>>
    /\ current_query_info = EmptyDict
    /\ \E d \in InitialDisks : dirs = d.dirs /\ files = d.files
    /\ now = 1
    /\ last = NoCall
    /\ prevExport = NoExport
    /\ lastOkPapers = <<>>
    /\ lastSearchPapers = <<>>
    /\ pc = [t \in Threads |-> "idle"]
    /\ loc = [t \in Threads |-> NoLocals]
    /\ cacheQuery = NoneVal
    /\ produced = {}

PreState ==
    [cache |-> paper_data_cache, info |-> current_query_info, dirs |-> dirs, files |-> files]

Prior == [op |-> last.op, outcome |-> last.outcome]

-----------------------------------------------------------------------------
(* search_papers(query, max_results), run to completion *)

Responses(query) ==
    [ok : {FALSE}, kind : NetFailures, feed : {<<>>}]
    \cup [ok : {TRUE}, kind : {"none"}, feed : FeedsFor(query)]

\* a cache that grows: paper_data_cache.extend(papers)
NewCacheAppends(old, papers) == old \o papers

\* line 82: paper_data_cache = papers
NewCache(old, papers) == papers

StrfTime(t) == [style |-> "%Y-%m-%d %H:%M:%S", t |-> t]

\* lines 83-88
NewQueryInfo(query, max_results, papers, t) ==
    [ query |-> query, max_results |-> max_results,
      num_found |-> Len(papers), timestamp |-> StrfTime(t) ]

SearchRecord(query, max_results, feed, outcome, msg, ret, papers) ==
    [ op |-> "search", arg |-> query, max_results |-> max_results, feed |-> feed,
      outcome |-> outcome, msg |-> msg, ret |-> ret, papers |-> papers,
      pre |-> PreState, prev |-> prevExport, prior |-> Prior ]

\* a failure path that resets the session before returning
SearchFailedClears(query, max_results) ==
    /\ last' = SearchRecord(query, max_results, <<>>, "failed", "connect_failed", NoneVal, <<>>)
    /\ lastSearchPapers' = <<>>
    /\ paper_data_cache' = <<>>
    /\ current_query_info' = EmptyDict
    /\ UNCHANGED <<prevExport, lastOkPapers>>

\* lines 44-50: the request raised; the except branch returns
SearchFailed(query, max_results) ==
    /\ last' = SearchRecord(query, max_results, <<>>, "failed", "connect_failed", NoneVal, <<>>)
    /\ lastSearchPapers' = <<>>
    /\ UNCHANGED <<paper_data_cache, current_query_info, prevExport, lastOkPapers>>

\* an empty feed stored as the new result list
SearchNotFoundClears(query, max_results) ==
    /\ last' = SearchRecord(query, max_results, <<>>, "not_found", "not_found", NoneVal, <<>>)
    /\ lastSearchPapers' = <<>>
    /\ paper_data_cache' = <<>>
    /\ UNCHANGED <<current_query_info, prevExport, lastOkPapers>>

\* lines 52-55: the feed has no entries
SearchNotFound(query, max_results) ==
    /\ last' = SearchRecord(query, max_results, <<>>, "not_found", "not_found", NoneVal, <<>>)
    /\ lastSearchPapers' = <<>>
    /\ UNCHANGED <<paper_data_cache, current_query_info, prevExport, lastOkPapers>>

\* lines 57-91
SearchFound(query, max_results, feed) ==
    LET papers == BuildPapers(feed)
    IN  /\ paper_data_cache' = NewCache(paper_data_cache, papers)
        /\ current_query_info' = NewQueryInfo(query, max_results, papers, now)
        /\ last' = SearchRecord(query, max_results, feed, "found", "report", "update_visible", papers)
        /\ prevExport' = NoExport
        /\ lastOkPapers' = papers
        /\ lastSearchPapers' = papers

search_papers(query, max_results, response) ==
    /\ now < MaxClock + 1
    /\ now' = now + 1
    /\ IF ~response.ok THEN SearchFailed(query, max_results)
       ELSE IF response.feed = <<>> THEN SearchNotFound(query, max_results)
       ELSE SearchFound(query, max_results, response.feed)
    /\ UNCHANGED <<dirs, files>>
    /\ UNCHANGED concVars

-----------------------------------------------------------------------------
(* export_results(format), run to completion *)

\* line 98: papers = paper_data_cache
ExportSnapshot(cache) == cache

\* os.makedirs moved above the empty check
ExportDirsEager(papers, ds) == ds \cup {"outputs"}

\* lines 99-103: os.makedirs runs only past the empty check
ExportDirs(papers, ds) == IF papers = <<>> THEN ds ELSE ds \cup {"outputs"}

\* a writer that consumes the list: papers.pop(0)
ListAfterWritersPops(format, papers) == Tail(papers)

\* papers is the very list paper_data_cache names: what the writers leave of it
\* (lines 111-165 only read it)
ListAfterWriters(format, papers) == papers

\* lines 110-176: the files after the try block, for each place it can raise
ExportFiles(format, papers, failAt, fs, t) ==
    IF papers = <<>> THEN fs
    ELSE IF failAt = "write" THEN (FileName(format) :> PartialFile(format)) @@ fs
    ELSE IF failAt = "log"
         THEN (FileName(format) :> Document(format, papers)) @@ (LogName :> LogFile(<<>>)) @@ fs
    ELSE (FileName(format) :> Document(format, papers))
         @@ (LogName :> LogFile(<<LogEvent(format, papers, t)>>)) @@ fs

\* lines 101, 179, 183
ExportReturn(format, papers, failAt) ==
    IF papers = <<>> \/ failAt # "none" THEN NoneVal ELSE FileName(format)

ExportOutcome(papers, failAt) ==
    IF papers = <<>> THEN "empty_cache" ELSE IF failAt = "none" THEN "exported" ELSE failAt

export_results(format, failAt) ==
    LET papers == ExportSnapshot(paper_data_cache)
        ret    == ExportReturn(format, papers, failAt)
    IN  /\ now < MaxClock + 1
        /\ papers = <<>> => failAt = "none"
        /\ now' = now + 1
        /\ dirs' = ExportDirs(papers, dirs)
        /\ files' = ExportFiles(format, papers, failAt, files, now)
        /\ paper_data_cache' = IF papers = <<>> THEN paper_data_cache
                               ELSE ListAfterWriters(format, papers)
        /\ last' = [ op |-> "export", arg |-> format, max_results |-> 0, feed |-> <<>>,
                     outcome |-> ExportOutcome(papers, failAt), msg |-> NoneVal,
                     ret |-> ret, papers |-> papers,
                     pre |-> PreState, prev |-> prevExport, prior |-> Prior ]
        /\ prevExport' = [ valid |-> TRUE, fmt |-> format, ret |-> ret,
                           outcome |-> ExportOutcome(papers, failAt),
                           dirs |-> dirs', files |-> files' ]
        /\ UNCHANGED <<current_query_info, lastOkPapers, lastSearchPapers>>
        /\ UNCHANGED concVars

-----------------------------------------------------------------------------
Next ==
    \/ \E q \in Queries, m \in MaxResultsChoices : \E r \in Responses(q) : search_papers(q, m, r)
    \/ \E f \in Formats, x \in FailPoints : export_results(f, x)

Spec == Init /\ [][Next]_vars

-----------------------------------------------------------------------------
(* The handlers as the toolkit's worker threads run them: each step below is  *)
(* atomic, and steps of different threads interleave.  A step ends at each    *)
(* read or write of a global.                                                 *)

\* lines 44-80: the request, the parse and the loop that fills the local list
SearchRequest(t, query, max_results, response) ==
    /\ t \in Searchers
    /\ pc[t] = "idle"
    /\ IF response.ok /\ response.feed # <<>>
       THEN /\ pc' = [pc EXCEPT ![t] = "line82"]
            /\ loc' = [loc EXCEPT ![t] = [ query |-> query, max_results |-> max_results,
                                           papers |-> BuildPapers(response.feed) ]]
       ELSE /\ pc' = [pc EXCEPT ![t] = "done"]
            /\ loc' = [loc EXCEPT ![t] = [ret |-> NoneVal]]
    /\ UNCHANGED <<paper_data_cache, current_query_info, dirs, files, now, cacheQuery, produced>>
    /\ UNCHANGED seqHist

\* line 82
SearchStoreCache(t) ==
    /\ t \in Searchers
    /\ pc[t] = "line82"
    /\ paper_data_cache' = NewCache(paper_data_cache, loc[t].papers)
    /\ cacheQuery' = loc[t].query
    /\ produced' = produced \cup {loc[t].papers}
    /\ pc' = [pc EXCEPT ![t] = "line83"]
    /\ UNCHANGED <<current_query_info, dirs, files, now, loc>>
    /\ UNCHANGED seqHist

\* lines 83-91
SearchStoreInfo(t) ==
    /\ t \in Searchers
    /\ pc[t] = "line83"
    /\ current_query_info' = NewQueryInfo(loc[t].query, loc[t].max_results, loc[t].papers, now)
    /\ now' = now + 1
    /\ pc' = [pc EXCEPT ![t] = "done"]
    /\ loc' = [loc EXCEPT ![t] = [ret |-> "update_visible"]]
    /\ UNCHANGED <<paper_data_cache, dirs, files, cacheQuery, produced>>
    /\ UNCHANGED seqHist

\* a loop that indexes the global again on every pass
ExportSourceGlobal(papers, cache) == cache

\* lines 114, 142, 154, 160: the writers iterate the local name papers
ExportSource(papers, cache) == papers

\* lines 98-106: the snapshot, the empty check, os.makedirs
ExportBegin(t, format, failAt) ==
    /\ t \in Exporters
    /\ pc[t] = "idle"
    /\ LET papers == ExportSnapshot(paper_data_cache)
       IN  /\ papers = <<>> => failAt = "none"
           /\ dirs' = ExportDirs(papers, dirs)
           /\ IF papers = <<>>
              THEN /\ pc' = [pc EXCEPT ![t] = "done"]
                   /\ loc' = [loc EXCEPT ![t] = [ret |-> NoneVal]]
              ELSE /\ pc' = [pc EXCEPT ![t] = "writing"]
                   /\ loc' = [loc EXCEPT ![t] = [ format |-> format, failAt |-> failAt,
                                                  papers |-> papers, i |-> 1,
                                                  written |-> <<>>, ret |-> NoneVal ]]
    /\ UNCHANGED <<paper_data_cache, current_query_info, files, now, cacheQuery, produced>>
    /\ UNCHANGED seqHist

\* one pass of the writer's loop over the records (lines 114-119, 142-149, 160-164)
ExportWriteRecord(t) ==
    /\ t \in Exporters
    /\ pc[t] = "writing"
    /\ LET src == ExportSource(loc[t].papers, paper_data_cache)
       IN  /\ loc[t].i <= Len(src)
           /\ loc' = [loc EXCEPT ![t].written = Append(@, src[loc[t].i]), ![t].i = @ + 1]
    /\ UNCHANGED <<paper_data_cache, current_query_info, dirs, files, now, pc, cacheQuery, produced>>
    /\ UNCHANGED seqHist

\* the loop is over: the document is saved, the log record written (lines 120-183)
ExportFinish(t) ==
    /\ t \in Exporters
    /\ pc[t] = "writing"
    /\ LET src == ExportSource(loc[t].papers, paper_data_cache)
           fmt == loc[t].format
           ret == ExportReturn(fmt, src, loc[t].failAt)
       IN  /\ loc[t].i > Len(src)
           /\ files' =
                IF loc[t].failAt = "write" THEN (FileName(fmt) :> PartialFile(fmt)) @@ files
                ELSE IF loc[t].failAt = "log"
                     THEN (FileName(fmt) :> Document(fmt, loc[t].written))
                          @@ (LogName :> LogFile(<<>>)) @@ files
                ELSE (FileName(fmt) :> Document(fmt, loc[t].written))
                     @@ (LogName :> LogFile(<<LogEvent(fmt, src, now)>>)) @@ files
           /\ loc' = [loc EXCEPT ![t].ret = ret]
    /\ now' = now + 1
    /\ pc' = [pc EXCEPT ![t] = "done"]
    /\ UNCHANGED <<paper_data_cache, current_query_info, dirs, cacheQuery, produced>>
    /\ UNCHANGED seqHist

NextConc ==
    \/ \E t \in Searchers, q \in Queries, m \in MaxResultsChoices :
          \E r \in Responses(q) : SearchRequest(t, q, m, r)
    \/ \E t \in Searchers : SearchStoreCache(t)
    \/ \E t \in Searchers : SearchStoreInfo(t)
    \/ \E t \in Exporters, f \in Formats, x \in FailPoints : ExportBegin(t, f, x)
    \/ \E t \in Exporters : ExportWriteRecord(t)
    \/ \E t \in Exporters : ExportFinish(t)

SpecConc == Init /\ [][NextConc]_vars

-----------------------------------------------------------------------------
(* Properties of the handlers run one at a time (Spec) *)

Found == last.op = "search" /\ last.outcome = "found"
Exported == last.op = "export" /\ last.ret # NoneVal

\* C1: a search that succeeds on a feed of N >= 1 entries leaves exactly N
\* records in the cache, the i-th derived from the i-th entry of the feed, none
\* kept from earlier searches, and num_found = N.
C1_SearchReplacesCache ==
    Found =>
        LET N == Len(last.feed)
        IN  /\ N >= 1
            /\ Len(paper_data_cache) = N
            /\ \A i \in 1..N :
                  /\ paper_data_cache[i] = PaperOf(last.feed[i])
                  /\ paper_data_cache[i]["Title"] = last.feed[i].title
                  /\ paper_data_cache[i]["PDF Link"] \in
                        {last.feed[i].id} \cup {last.feed[i].links[j].href : j \in 1..Len(last.feed[i].links)}
            /\ current_query_info.num_found = N

\* a search found two entries while an earlier search's records were cached
C1_Witness ==
    /\ Found
    /\ Len(last.feed) = 2
    /\ last.feed[1] # last.feed[2]
    /\ last.pre.cache # <<>>
    /\ last.pre.cache # paper_data_cache

\* C2: a search that hits a network failure, or whose feed is empty, returns no
\* result signal and leaves the cache and the query info as they were.
C2_FailedSearchKeepsSession ==
    (last.op = "search" /\ last.outcome \in {"failed", "not_found"}) =>
        /\ last.ret = NoneVal
        /\ paper_data_cache = last.pre.cache
        /\ current_query_info = last.pre.info

\* a request failed while records of an earlier search were cached
C2_Witness ==
    /\ last.op = "search"
    /\ last.outcome = "failed"
    /\ last.pre.cache # <<>>
    /\ last.pre.info # EmptyDict

\* C3 as stated: after any search call, whatever its outcome, the cache holds
\* only that call's results, and an export writes only the records of the most
\* recent search call.
C3_AnySearchReplacesCache ==
    /\ last.op = "search" => paper_data_cache = last.papers
    /\ Exported => files[last.ret] = Document(last.arg, lastSearchPapers)

\* C3 amended: the cache always holds exactly the list built by the most
\* recent search that succeeded (the empty list before any), and an export that
\* returns a file wrote the records of that search and no others.
C3_LastSuccessfulSearchOnly ==
    /\ paper_data_cache = lastOkPapers
    /\ Found => paper_data_cache = last.papers
    /\ Exported => files[last.ret] = Document(last.arg, lastOkPapers)

\* an export returned a file right after a search that did not succeed
C3_Witness ==
    /\ Exported
    /\ last.prior.op = "search"
    /\ last.prior.outcome \in {"failed", "not_found"}

\* C4: with an empty cache export_results returns None for every format and
\* leaves directories and files as they were; so a file name is returned only
\* after a search has succeeded.
C4_EmptyCacheExportTouchesNothing ==
    /\ (last.op = "export" /\ last.pre.cache = <<>>) =>
          /\ last.ret = NoneVal
          /\ dirs = last.pre.dirs
          /\ files = last.pre.files
    /\ Exported => lastOkPapers # <<>>

\* PDF was requested on a fresh disk with nothing cached
C4_Witness ==
    /\ last.op = "export"
    /\ last.arg = "PDF"
    /\ last.pre.cache = <<>>
    /\ "outputs" \notin last.pre.dirs

\* C5: export_results leaves paper_data_cache and current_query_info as they
\* were, whether it returns a file, finds the cache empty or catches an exception.
C5_ExportKeepsSession ==
    last.op = "export" =>
        /\ paper_data_cache = last.pre.cache
        /\ current_query_info = last.pre.info

\* an export of a non-empty cache raised while writing
C5_Witness ==
    /\ last.op = "export"
    /\ last.outcome = "write"
    /\ Len(last.pre.cache) = 2

\* a file's content with the timestamp fields blanked
SansTime(f) ==
    IF f.writer = "json"
    THEN [f EXCEPT !.body = [i \in 1..Len(f.body) |-> [f.body[i] EXCEPT !.time = NoneVal]]]
    ELSE f

SameDisk(ds1, fs1, ds2, fs2) ==
    /\ ds1 = ds2
    /\ DOMAIN fs1 = DOMAIN fs2
    /\ \A n \in DOMAIN fs1 : SansTime(fs1[n]) = SansTime(fs2[n])

SecondOfTwo == last.op = "export" /\ last.prev.valid /\ last.prev.fmt = last.arg

Completed(outcome) == outcome \in {"exported", "empty_cache"}

C7_ExtensionMatchesWriter ==
    Exported =>
        LET f == files[last.ret]
        IN  CASE last.arg = "Word" ->
                    /\ last.ret = "outputs/scholarsift_export.docx"
                    /\ f.writer = "word" /\ f.body = WordBody(last.papers)
              [] last.arg = "PDF" ->
                    /\ last.ret = "outputs/scholarsift_export.pdf"
                    /\ f.writer = "pdf" /\ f.body = PdfBody(last.papers)
              [] last.arg = "Excel" ->
                    /\ last.ret = "outputs/scholarsift_export.xlsx"
                    /\ f.writer = "excel" /\ f.body = ExcelBody(last.papers)
              [] OTHER ->
                    /\ last.ret = "outputs/scholarsift_export.txt"
                    /\ f.writer = "text" /\ f.body = TextBody(last.papers)

\* a format outside the four known ones was exported
C7_Witness == Exported /\ last.arg \notin {"Text", "Word", "PDF", "Excel"}

\* text with its first n characters removed
Drop(s, n) == SubSeq(s, n + 1, Len(s))

\* the value read back from a line f"{k:<12}: {v}\n" of the text export
ReadTextField(line) == SubSeq(line, TextKeyWidth + 3, Len(line) - 1)

TextRoundTrip(body, cache) ==
    \A i \in 1..Len(cache) : \A j \in 1..Len(FieldOrder) :
        ReadTextField(body[1 + (i - 1) * (Len(FieldOrder) + 2) + 1 + j]) = cache[i][FieldOrder[j]]

WordRoundTrip(body, cache) ==
    \A i \in 1..Len(cache) :
        LET at == 1 + (i - 1) * 5
        IN  /\ Drop(body[at + 1].text, Len(PaperLabel) + Len(Digits(i)) + 2) = cache[i]["Title"]
            /\ Drop(body[at + 2].text, Len(AuthorsLabel)) = cache[i]["Authors"]
            /\ Drop(body[at + 3].text, Len(PublishedLabel)) = cache[i]["Published"]
            /\ Drop(body[at + 4].text, Len(PdfLinkLabel)) = cache[i]["PDF Link"]
            /\ Drop(body[at + 5].text, Len(AbstractLabel)) = cache[i]["Abstract"]

ExcelRoundTrip(body, cache) ==
    /\ Len(body) = Len(cache) + 1
    /\ \A i \in 1..Len(cache) : \A j \in 1..Len(FieldOrder) :
          body[i + 1][j] = cache[i][FieldOrder[j]]

PdfCut(body, cache) ==
    LET ls == PdfLines(cache)
    IN  /\ Len(body) = Len(ls)
        /\ \A j \in 1..Len(ls) :
              /\ Len(body[j].text) <= 100
              /\ IsPrefix(body[j].text, ls[j].line)
              /\ Len(ls[j].line) <= 100 => body[j].text = ls[j].line
              /\ Len(ls[j].line) > 100 => Len(body[j].text) = 100

\* C8: the Text, Word and Excel exports hold every field of every cached
\* record verbatim; every line the PDF export draws is the first 100 characters
\* of the line composed for it.
C8_ExportRoundTrip ==
    Exported =>
        LET f == files[last.ret]
        IN  CASE f.writer = "text"  -> TextRoundTrip(f.body, paper_data_cache)
              [] f.writer = "word"  -> WordRoundTrip(f.body, paper_data_cache)
              [] f.writer = "excel" -> ExcelRoundTrip(f.body, paper_data_cache)
              [] f.writer = "pdf"   -> PdfCut(f.body, paper_data_cache)

\* a PDF export drew a line of exactly 100 characters and cut a longer one
C8_Witness ==
    /\ Exported
    /\ last.arg = "PDF"
    /\ \E j \in 1..Len(PdfLines(paper_data_cache)) : Len(PdfLines(paper_data_cache)[j].line) = 100
    /\ \E j \in 1..Len(PdfLines(paper_data_cache)) : Len(PdfLines(paper_data_cache)[j].line) > 100

-----------------------------------------------------------------------------
(* Properties of interleaved handlers (SpecConc) *)

AllSearchesReturned == \A t \in Searchers : pc[t] = "done"

\* C9: once every interleaved search has returned, the cache and the query
\* info describe the same search: num_found counts the cached records and query
\* is the query that produced them.
C9_SessionDescribesOneSearch ==
    (AllSearchesReturned /\ paper_data_cache # <<>>) =>
        /\ current_query_info.num_found = Len(paper_data_cache)
        /\ current_query_info.query = cacheQuery

IsSeqPrefix(p, s) == Len(p) <= Len(s) /\ \A i \in 1..Len(p) : p[i] = s[i]

\* C10: an export that runs while searches rebind the cache writes the records
\* of one search's list only, in order, and logs the number of records it wrote.
C10_ExportWritesOneSnapshot ==
    \A t \in Exporters :
        /\ pc[t] = "writing" =>
              \E L \in produced : IsSeqPrefix(loc[t].written, L)
        /\ (pc[t] = "done" /\ loc[t].ret # NoneVal) =>
              /\ loc[t].written \in produced
              /\ files[loc[t].ret] = Document(loc[t].format, loc[t].written)
              /\ files[LogName].body[1].count = Len(loc[t].written)

\* an export returned a file of two records although a search had rebound the
\* cache to another list in the meantime
C10_Witness ==
    \E t \in Exporters :
        /\ pc[t] = "done"
        /\ loc[t].ret # NoneVal
        /\ Len(loc[t].written) = 2
        /\ paper_data_cache # loc[t].written
        /\ Cardinality(produced) = 2

====
